---- MODULE Spec2Model ----
(***************************************************************************)
(* The scripted-scene virtual machine of OpenPAL3 (opengb/src/directors/   *)
(* sce_vm.rs) with the two role-movement commands of sce_commands/.        *)
(*                                                                         *)
(* A procedure is a byte buffer.  The dispatcher reads a little-endian     *)
(* i32 opcode and the opcode's arguments from the top frame of the proc    *)
(* stack and builds a command; SceVm::update decodes and ticks commands    *)
(* and keeps the unfinished ones in active_commands.                       *)
(*                                                                         *)
(* f32 quantities (seconds, world units) are fixed-point integers in       *)
(* units of 1/FScale; every script and input of the model is exact at      *)
(* that resolution.                                                        *)
(***************************************************************************)
EXTENDS Integers, Sequences, FiniteSets, TLC

VARIABLES
  sce,              \* SceFile.procs: proc id -> inst (sequence of bytes)
  proc_stack,       \* SceExecutionContext.proc_stack (last element = top)
  active_commands,  \* SceVm.active_commands
  run_mode,         \* SceState.run_mode
  roles,            \* the scene's role entities: id -> [position, anim, local_z]
  status,           \* "running", or "panic" once a Rust panic has unwound update
  log,              \* events of the latest update, in order
  next_id,          \* number of commands decoded so far (identity of the next one)
  steps,            \* number of updates so far
  ncalls,           \* number of call_proc calls by the director so far
  hist,             \* facts remembered across updates (see NewHist)
  input,            \* decoder harness: the instruction that was encoded
  decoded           \* decoder harness: what get_next_cmd returned for it

vars == <<sce, proc_stack, active_commands, run_mode, roles, status, log,
          next_id, steps, ncalls, hist, input, decoded>>

\* Fixed-point resolution of f32 quantities: quarter units.
FScale == 2 * 2

None == [none |-> TRUE]

Reverse(s) == [k \in 1..Len(s) |-> s[Len(s) + 1 - k]]

RECURSIVE Pow2(_)
Pow2(n) == IF n <= 0 THEN 1 ELSE 2 * Pow2(n - 1)

RECURSIVE Flatten(_)
Flatten(ss) == IF Len(ss) = 0 THEN <<>> ELSE Head(ss) \o Flatten(Tail(ss))

(***************************************************************************)
(* byteorder::LittleEndian conversions used by mod data_read               *)
(***************************************************************************)
LeU16(b) == b[1] + 256 * b[2]

LeI16(b) == IF LeU16(b) >= 32768 THEN LeU16(b) - 65536 ELSE LeU16(b)

LeI32(b) ==
  b[1] + 256 * b[2] + 65536 * b[3]
    + 16777216 * (IF b[4] >= 128 THEN b[4] - 256 ELSE b[4])

\* Values of 2^31 and above do not occur in the scripts of the model.
LeU32(b) == b[1] + 256 * b[2] + 65536 * b[3] + 16777216 * b[4]

\* IEEE-754 binary32, as a fixed-point number of FScale-ths (truncated
\* towards zero; zero and subnormals are 0; magnitudes of 2^29 and above
\* saturate).
LeF32(b) ==
  LET sign == b[4] \div 128
      e    == (b[4] % 128) * 2 + b[3] \div 128
      mant == 8388608 + (b[3] % 128) * 65536 + b[2] * 256 + b[1]
      sh   == e - 150
      mag  == IF e = 0 THEN 0
              ELSE IF sh > 5 THEN Pow2(30)
              ELSE IF sh >= 0 THEN mant * Pow2(sh) * FScale
              ELSE IF sh < -30 THEN 0
              ELSE (mant * FScale) \div Pow2(-sh)
  IN IF sign = 1 THEN -mag ELSE mag

(***************************************************************************)
(* encoding::all::GBK.decode(bytes, DecoderTrap::Ignore): a byte below     *)
(* 0x80 is one character; a lead byte 0x81..0xFE with a trail byte         *)
(* 0x40..0xFE other than 0x7F is one character; anything else is an        *)
(* undecodable byte and is dropped.  A character is its code.              *)
(***************************************************************************)
RECURSIVE GbkDecode(_)
GbkDecode(bytes) ==
  IF bytes = <<>> THEN <<>>
  ELSE LET b == Head(bytes)
       IN IF b < 128 THEN <<b>> \o GbkDecode(Tail(bytes))
          ELSE IF /\ b >= 129 /\ b <= 254 /\ Len(bytes) >= 2
                  /\ bytes[2] >= 64 /\ bytes[2] <= 254 /\ bytes[2] # 127
               THEN <<256 * b + bytes[2]>> \o GbkDecode(Tail(Tail(bytes)))
               ELSE GbkDecode(Tail(bytes))

(***************************************************************************)
(* SceProcContext as a reader: r = [inst, pc, ok].  ok = FALSE is the      *)
(* panic of an out-of-range slice; pc then stays where the panic happened. *)
(***************************************************************************)
Reader(inst, pc) == [inst |-> inst, pc |-> pc, ok |-> TRUE, val |-> 0]

\* fn read(&mut self, count) -> &[u8]
Read(r, count) ==
  IF ~r.ok THEN r
  ELSE IF r.pc + count > Len(r.inst) THEN [r EXCEPT !.ok = FALSE]
  ELSE [r EXCEPT !.val = SubSeq(r.inst, r.pc + 1, r.pc + count),
                 !.pc = r.pc + count]

\* read_string leaving the pc on the last byte of the field
ReadStringShort(r, len) ==
  IF ~r.ok THEN r
  ELSE LET end == r.pc + len
       IN IF end - 1 < r.pc \/ end - 1 > Len(r.inst)
          THEN [r EXCEPT !.ok = FALSE]
          ELSE [r EXCEPT !.val = GbkDecode(SubSeq(r.inst, r.pc + 1, end - 1)),
                         !.pc = end - 1]

\* fn read_string(&mut self, len) -> String: the slice is
\* inst[pc .. pc + len - 1], the last byte of the field is not decoded.
ReadString(r, len) ==
  IF ~r.ok THEN r
  ELSE LET end == r.pc + len
       IN IF end - 1 < r.pc \/ end - 1 > Len(r.inst)
          THEN [r EXCEPT !.ok = FALSE]
          ELSE [r EXCEPT !.val = GbkDecode(SubSeq(r.inst, r.pc + 1, end - 1)),
                         !.pc = end]

\* read(n) and the byteorder conversion of the bytes read
DataReadI16(r) ==
  LET b == Read(r, 2) IN IF b.ok THEN [b EXCEPT !.val = LeI16(b.val)] ELSE b

DataReadI32(r) ==
  LET b == Read(r, 4) IN IF b.ok THEN [b EXCEPT !.val = LeI32(b.val)] ELSE b

DataReadU32(r) ==
  LET b == Read(r, 4) IN IF b.ok THEN [b EXCEPT !.val = LeU32(b.val)] ELSE b

DataReadF32(r) ==
  LET b == Read(r, 4) IN IF b.ok THEN [b EXCEPT !.val = LeF32(b.val)] ELSE b

\* context.read(2).read_u16::<LittleEndian>()
DataReadU16(r) ==
  LET b == Read(r, 2) IN IF b.ok THEN [b EXCEPT !.val = LeU16(b.val)] ELSE b

DataReadString(r) ==
  LET l == DataReadU16(r)
  IN IF l.ok THEN ReadString(l, l.val) ELSE l

\* (0..len).map(|_| { read(1); string(context) }).collect()
RECURSIVE ListItems(_, _, _)
ListItems(r, n, acc) ==
  IF ~r.ok THEN r
  ELSE IF n = 0 THEN [r EXCEPT !.val = acc]
  ELSE LET s == DataReadString(Read(r, 1))
       IN IF s.ok THEN ListItems(s, n - 1, Append(acc, s.val)) ELSE s

DataReadList(r) ==
  LET l == DataReadU16(r)
  IN IF l.ok THEN ListItems(l, l.val, <<>>) ELSE l

DataRead(type, r) ==
  CASE type = "i16" -> DataReadI16(r)
    [] type = "i32" -> DataReadI32(r)
    [] type = "u32" -> DataReadU32(r)
    [] type = "f32" -> DataReadF32(r)
    [] type = "string" -> DataReadString(r)
    [] type = "list" -> DataReadList(r)

(***************************************************************************)
(* The dispatch table of SceProcContext::get_next_cmd: one arm per match   *)
(* arm, with the macro it expands (command! or nop_command!), the command  *)
(* it constructs and the types of its parameters as declared.              *)
(***************************************************************************)
Arm(macro, name, types) == [macro |-> macro, name |-> name, types |-> types]

MatchArm(op) ==
  CASE op = 1 -> Arm("command", "SceCommandIdle", <<"f32">>)
    [] op = 2 -> Arm("command", "SceCommandScriptRunMode", <<"i32">>)
    [] op = 3 -> Arm("command", "SceCommandGoto", <<"u32">>)
    [] op = 5 -> Arm("command", "SceCommandFop", <<"i32">>)
    [] op \in {6, 65542} -> Arm("command", "SceCommandGt", <<"i16", "i32">>)
    [] op \in {7, 65543} -> Arm("command", "SceCommandLs", <<"i16", "i32">>)
    [] op \in {8, 65544} -> Arm("command", "SceCommandEq", <<"i16", "i32">>)
    [] op \in {9, 65545} -> Arm("command", "SceCommandNeq", <<"i16", "i32">>)
    [] op \in {10, 65546} -> Arm("command", "SceCommandGeq", <<"i16", "i32">>)
    [] op \in {11, 65547} -> Arm("command", "SceCommandLeq", <<"i16", "i32">>)
    [] op = 12 -> Arm("command", "SceCommandTestGoto", <<"u32">>)
    [] op \in {13, 65549} -> Arm("command", "SceCommandLet", <<"i16", "i32">>)
    [] op = 16 -> Arm("command", "SceCommandCall", <<"u32">>)
    [] op \in {17, 65553} -> Arm("command", "SceCommandRnd", <<"i16", "i32">>)
    [] op = 20 -> Arm("command", "SceCommandRolePathTo", <<"i32", "i32", "i32", "i32">>)
    [] op = 21 -> Arm("command", "SceCommandRoleSetPos", <<"i32", "i32", "i32">>)
    [] op = 22 -> Arm("command", "SceCommandRoleShowAction", <<"i32", "string", "i32">>)
    [] op = 23 -> Arm("command", "SceCommandRoleSetFace", <<"i32", "i32">>)
    [] op = 24 -> Arm("command", "SceCommandRoleTurnFace", <<"i32", "f32">>)
    [] op = 27 -> Arm("command", "SceCommandRoleInput", <<"i32">>)
    [] op = 28 -> Arm("command", "SceCommandRoleActive", <<"i32", "i32">>)
    [] op = 32 -> Arm("nop", "SceCommandNop", <<"f32", "f32", "i32">>)
    [] op = 33 -> Arm("nop", "SceCommandNop", <<"f32", "f32", "f32", "i32">>)
    [] op = 34 -> Arm("command", "SceCommandCameraMove", <<"f32", "f32", "f32", "f32", "f32">>)
    [] op = 35 -> Arm("nop", "SceCommandNop", <<"f32", "f32", "f32", "i32">>)
    [] op = 36 -> Arm("command", "SceCommandCameraSet", <<"f32", "f32", "f32", "f32", "f32", "f32">>)
    [] op = 37 -> Arm("command", "SceCommandCameraDefault", <<"i32">>)
    [] op = 46 -> Arm("nop", "SceCommandNop", <<"i32", "i32">>)
    [] op = 62 -> Arm("command", "SceCommandDlg", <<"string">>)
    [] op = 63 -> Arm("command", "SceCommandLoadScene", <<"string", "string">>)
    [] op = 65 -> Arm("command", "SceCommandDlgSel", <<"list">>)
    [] op \in {66, 65602} -> Arm("command", "SceCommandGetDlgSel", <<"i16">>)
    [] op = 67 -> Arm("nop", "SceCommandNop", <<"i32", "string", "i32">>)
    [] op = 68 -> Arm("nop", "SceCommandNop", <<"string">>)
    [] op = 69 -> Arm("nop", "SceCommandNop", <<>>)
    [] op = 70 -> Arm("nop", "SceCommandNop", <<>>)
    [] op = 71 -> Arm("nop", "SceCommandNop", <<"i32">>)
    [] op = 72 -> Arm("nop", "SceCommandNop", <<"i32", "i32">>)
    [] op = 78 -> Arm("command", "SceCommandHaveItem", <<"i32">>)
    [] op = 79 -> Arm("command", "SceCommandPlaySound", <<"string", "i32">>)
    [] op = 85 -> Arm("command", "SceCommandObjectActive", <<"i32", "i32">>)
    [] op = 86 -> Arm("nop", "SceCommandNop", <<"string", "i32">>)
    [] op = 87 -> Arm("nop", "SceCommandNop", <<"i32">>)
    [] op = 88 -> Arm("nop", "SceCommandNop", <<"i32">>)
    [] op = 89 -> Arm("command", "SceCommandHyFly", <<"f32", "f32", "f32">>)
    [] op = 90 -> Arm("nop", "SceCommandNop", <<"i32", "f32", "f32", "f32", "f32">>)
    [] op = 104 -> Arm("nop", "SceCommandNop", <<>>)
    [] op \in {108, 65644} -> Arm("command", "SceCommandGetAppr", <<"i16">>)
    [] op = 115 -> Arm("nop", "SceCommandNop", <<"string">>)
    [] op = 116 -> Arm("nop", "SceCommandNop", <<"i32", "string">>)
    [] op = 118 -> Arm("nop", "SceCommandNop", <<"f32", "f32">>)
    [] op = 124 -> Arm("nop", "SceCommandNop", <<"i32">>)
    [] op = 133 -> Arm("command", "SceCommandMusic", <<"string", "i32">>)
    [] op = 134 -> Arm("command", "SceCommandStopMusic", <<>>)
    [] op = 142 -> Arm("nop", "SceCommandNop", <<"f32", "f32", "f32">>)
    [] op = 143 -> Arm("nop", "SceCommandNop", <<"i32">>)
    [] op = 148 -> Arm("nop", "SceCommandNop", <<"i32">>)
    [] op = 150 -> Arm("nop", "SceCommandNop", <<"i32", "string">>)
    [] op = 201 -> Arm("command", "SceCommandRolePathOut", <<"i32", "i32", "i32", "i32">>)
    [] op = 202 -> Arm("nop", "SceCommandNop", <<"i32", "i32">>)
    [] op = 204 -> Arm("command", "SceCommandRoleCtrl", <<"i32">>)
    [] op = 207 -> Arm("command", "SceCommandRoleActAutoStand", <<"i32", "i32">>)
    [] op = 208 -> Arm("command", "SceCommandRoleMoveBack", <<"i32", "f32">>)
    [] op = 209 -> Arm("command", "SceCommandRoleFaceRole", <<"i32", "i32">>)
    [] op = 210 -> Arm("command", "SceCommandRoleSetFace", <<"i32", "i32">>)
    [] op = 211 -> Arm("nop", "SceCommandNop", <<>>)
    [] op = 212 -> Arm("nop", "SceCommandNop", <<>>)
    [] op = 214 -> Arm("command", "SceCommandRoleMoveTo", <<"i32", "i32", "i32", "i32">>)
    [] op = 221 -> Arm("nop", "SceCommandNop", <<"i32">>)
    [] op = 250 -> Arm("nop", "SceCommandNop", <<"i32">>)
    [] OTHER -> Arm("default", "Unsupported", <<>>)

\* Every code of the match arms.
Opcodes ==
  {1, 2, 3, 5, 6, 65542, 7, 65543, 8, 65544, 9, 65545,
   10, 65546, 11, 65547, 12, 13, 65549, 16, 17, 65553, 20, 21,
   22, 23, 24, 27, 28, 32, 33, 34, 35, 36, 37, 46,
   62, 63, 65, 66, 65602, 67, 68, 69, 70, 71, 72, 78,
   79, 85, 86, 87, 88, 89, 90, 104, 108, 65644, 115, 116,
   118, 124, 133, 134, 142, 143, 148, 150, 201, 202, 204, 207,
   208, 209, 210, 211, 212, 214, 221, 250}

\* A table without the indirect form of Let
DispatchArmNoLetAlias(op) ==
  IF op = 65549 THEN Arm("default", "Unsupported", <<>>) ELSE MatchArm(op)

\* `match data_read::i32(self)`
DispatchArm(op) == MatchArm(op)

(***************************************************************************)
(* command! / nop_command!: the @reverse_arg rules turn the declared       *)
(* parameter list around before @inner emits one `let p = data_read::t`    *)
(* per parameter, so the reads happen last parameter first.  ReadOrder(n)  *)
(* is the sequence of declared positions in the order they are read.       *)
(***************************************************************************)
\* The reads in declared order, as without the @reverse_arg rules
ReadOrderDeclared(n) == [k \in 1..n |-> k]

ReadOrder(n) == [k \in 1..n |-> n + 1 - k]

\* The `let` sequence of @inner: bound[i] is the value of declared
\* parameter i.  ReadArgsBind takes the reader v left by one data_read.
RECURSIVE ReadArgs(_, _, _, _)
ReadArgsBind(v, types, order, bound) ==
  ReadArgs(v, types, Tail(order),
           IF v.ok THEN [bound EXCEPT ![Head(order)] = v.val] ELSE bound)

ReadArgs(r, types, order, bound) ==
  IF ~r.ok \/ Len(order) = 0 THEN [r |-> r, bound |-> bound]
  ELSE ReadArgsBind(DataRead(types[Head(order)], r), types, order, bound)

NoCmd(kind, pc, op, read) ==
  [kind |-> kind, pc |-> pc, cmd |-> None, read |-> read, op |-> op]

\* `Some(Box::new($cmd_name::new($($asc_param_names),*)))` after the reads
\* a; nop_command! builds SceCommandNop::new() whatever it read.
BuildCmd(op, arm, a) ==
  IF ~a.r.ok THEN NoCmd("panic", a.r.pc, op, a.bound)
  ELSE [kind |-> "cmd", pc |-> a.r.pc,
        cmd |-> [name |-> arm.name,
                 args |-> IF arm.macro = "nop" THEN <<>> ELSE a.bound],
        read |-> a.bound, op |-> op]

\* The default arm without `self.put(4)`
ExpandArmNoPut(o, arm) ==
  IF arm.macro = "default"
  THEN NoCmd("panic", o.pc, o.val, <<>>)
  ELSE BuildCmd(o.val, arm,
                ReadArgs(o, arm.types, ReadOrder(Len(arm.types)),
                         [i \in 1..Len(arm.types) |-> None]))

\* The arm taken for the opcode read by o
ExpandArm(o, arm) ==
  IF arm.macro = "default"
  THEN \* error!(..); self.put(4); panic!()
       NoCmd("panic", o.pc - 4, o.val, <<>>)
  ELSE BuildCmd(o.val, arm,
                ReadArgs(o, arm.types, ReadOrder(Len(arm.types)),
                         [i \in 1..Len(arm.types) |-> None]))

\* `match data_read::i32(self) { .. }`, o being the reader after that read
MatchOpcode(o) ==
  IF ~o.ok THEN NoCmd("panic", o.pc, 0, <<>>)
  ELSE ExpandArm(o, DispatchArm(o.val))

\* SceProcContext::get_next_cmd on a frame whose procedure is inst.
\* Result: kind is "none" (proc completed), "cmd", or "panic"; pc is the
\* frame's program counter afterwards; read holds what each declared
\* parameter was read as (also for nop_command!, which drops it).
ProcGetNextCmd(inst, pc) ==
  IF pc >= Len(inst) THEN NoCmd("none", pc, 0, <<>>)
  ELSE MatchOpcode(DataReadI32(Reader(inst, pc)))

(***************************************************************************)
(* SceProcContext (a frame of the proc stack) and SceExecutionContext      *)
(*                                                                         *)
(* local_vars is the HashMap<i16, i32>: a function whose domain is the set *)
(* of keys.  fid, born, parent, ret_pc, caller_locals and writes are       *)
(* history fields: the frame's identity, the number of updates before it   *)
(* was pushed, the frame it was pushed on, that frame's pc and locals at   *)
(* the push, and the number of set_local calls on it.                      *)
(***************************************************************************)
NoLocals == [s \in {} |-> 0]

\* SceProcContext::new (through new_from_id)
NewProcContext(proc_id, fid, born, below) ==
  [proc_id |-> proc_id,
   program_counter |-> 0,
   local_vars |-> NoLocals,
   dlgsel |-> 0,
   fid |-> fid,
   born |-> born,
   parent |-> IF Len(below) = 0 THEN 0 ELSE below[Len(below)].fid,
   ret_pc |-> IF Len(below) = 0 THEN 0 ELSE below[Len(below)].program_counter,
   caller_locals |-> IF Len(below) = 0 THEN NoLocals
                     ELSE below[Len(below)].local_vars,
   writes |-> 0]

\* proc_completed with > in place of >=
ProcCompletedPastEnd(procs, f) == f.program_counter > Len(procs[f.proc_id])

\* SceProcContext::proc_completed
ProcCompleted(procs, f) == f.program_counter >= Len(procs[f.proc_id])

\* SceProcContext::set_local: HashMap::insert
ProcSetLocal(f, var, value) ==
  [f EXCEPT !.local_vars =
              [s \in DOMAIN f.local_vars \cup {var} |->
                 IF s = var THEN value ELSE f.local_vars[s]],
            !.writes = f.writes + 1]

\* SceProcContext::get_local
ProcGetLocal(f, var) ==
  IF var \in DOMAIN f.local_vars
  THEN [some |-> TRUE, v |-> f.local_vars[var]]
  ELSE [some |-> FALSE, v |-> 0]

\* set_dlgsel that stores nothing
ProcSetDlgselDropped(f, value) == f

\* SceProcContext::set_dlgsel
ProcSetDlgsel(f, value) == [f EXCEPT !.dlgsel = value]

\* SceProcContext::get_dlgsel
ProcGetDlgsel(f) == f.dlgsel

\* SceExecutionContext::call_proc: new_from_id unwraps the header's
\* position, so an id without a procedure panics (ok = FALSE).
ExecCallProc(procs, stack, proc_id, fid, born) ==
  IF proc_id \in DOMAIN procs
  THEN [ok |-> TRUE, stack |-> Append(stack, NewProcContext(proc_id, fid, born, stack))]
  ELSE [ok |-> FALSE, stack |-> stack]

\* set_local on the bottom frame of the stack
ExecSetLocalBottom(stack, var, value) ==
  [stack EXCEPT ![1] = ProcSetLocal(stack[1], var, value)]

\* SceExecutionContext::set_local: on the top frame
ExecSetLocal(stack, var, value) ==
  [stack EXCEPT ![Len(stack)] = ProcSetLocal(stack[Len(stack)], var, value)]

\* SceExecutionContext::get_local: of the top frame
ExecGetLocal(stack, var) == ProcGetLocal(stack[Len(stack)], var)

\* No frame popped
PopNothing(procs, stack, popped) == [stack |-> stack, popped |-> popped]

\* The `while let` of SceExecutionContext::get_next_cmd: pop the completed
\* frames off the top.  popped lists them, first popped first, each with
\* the locals of the frame it uncovered.
RECURSIVE PopCompleted(_, _, _)
PopCompleted(procs, stack, popped) ==
  IF Len(stack) > 0 /\ ProcCompleted(procs, stack[Len(stack)])
  THEN PopCompleted(procs, SubSeq(stack, 1, Len(stack) - 1),
         Append(popped,
           [frame |-> stack[Len(stack)],
            uncovered |-> IF Len(stack) = 1 THEN NoLocals
                          ELSE stack[Len(stack) - 1].local_vars]))
  ELSE [stack |-> stack, popped |-> popped]

\* `self.proc_stack.last_mut().and_then(|p| p.get_next_cmd())`: r is what
\* the top frame's get_next_cmd returned
TopDecoded(stack, r) ==
  [stack |-> [stack EXCEPT ![Len(stack)].program_counter = r.pc],
   from |-> stack[Len(stack)].fid,
   from_pc |-> stack[Len(stack)].program_counter,
   res |-> r]

DecodeTop(procs, stack) ==
  IF Len(stack) = 0
  THEN [stack |-> stack, from |-> 0, from_pc |-> 0,
        res |-> [kind |-> "none", pc |-> 0, cmd |-> None, read |-> <<>>,
                 op |-> 0]]
  ELSE TopDecoded(stack,
         ProcGetNextCmd(procs[stack[Len(stack)].proc_id],
                        stack[Len(stack)].program_counter))

WithPopped(p, d) ==
  [stack |-> d.stack, popped |-> p.popped, from |-> d.from,
   from_pc |-> d.from_pc, res |-> d.res]

AfterPop(procs, p) == WithPopped(p, DecodeTop(procs, p.stack))

\* SceExecutionContext::get_next_cmd
ExecGetNextCmd(procs, stack) ==
  AfterPop(procs, PopCompleted(procs, stack, <<>>))

(***************************************************************************)
(* The scene.  Vec3 is <<x, y, z>> in FScale-ths of a world unit.  The     *)
(* scene host is outside the repository: nav_coord_to_scene_coord is the   *)
(* identity embedding of the nav plane, (x, z) |-> (x, 0, z).              *)
(***************************************************************************)
\* Largest r with r * r <= n: bisection of lo..hi, lo * lo <= n < hi * hi.
RECURSIVE SqrtBetween(_, _, _)
SqrtBetween(n, lo, hi) ==
  IF hi - lo <= 1 THEN lo
  ELSE LET mid == (lo + hi) \div 2
       IN IF mid * mid <= n THEN SqrtBetween(n, mid, hi)
          ELSE SqrtBetween(n, lo, mid)

\* f32::sqrt at the model's resolution; 46340 = floor(sqrt(2^31 - 1)).
ISqrt(n) == SqrtBetween(n, 0, IF n < 46340 THEN n + 1 ELSE 46340)

Vec3Sub(a, b) == <<a[1] - b[1], a[2] - b[2], a[3] - b[3]>>

Vec3Add(a, b) == <<a[1] + b[1], a[2] + b[2], a[3] + b[3]>>

Vec3Norm(v) == ISqrt(v[1] * v[1] + v[2] * v[2] + v[3] * v[3])

\* v / |v|, each component in FScale-ths
Vec3Normalized(v) ==
  [i \in 1..3 |-> (v[i] * FScale) \div Vec3Norm(v)]

\* Vec3::dot(scalar, vec): the scalar multiple
Vec3Scale(s, v) == [i \in 1..3 |-> (s * v[i]) \div FScale]

NavCoordToSceneCoord(nav_x, nav_z) == <<nav_x, 0, nav_z>>

\* SceCommandRoleMoveTo::update: const SPEED: f32 = 175.
SPEED == 175

(***************************************************************************)
(* Commands.  A command is [id, name, args, cur, ticks, dt_all, mode,      *)
(* from]: args are the constructor's arguments in declared order, cur the  *)
(* progress a durative command accumulates; id, ticks (updates so far),    *)
(* dt_all (the delta_sec of its updates if they all had the same, else     *)
(* -1), mode (the run mode when it was decoded) and from (the frame it was *)
(* decoded from) are history fields.                                       *)
(*                                                                         *)
(* The machine m = [stack, active, run_mode, roles, status, log, next_id,  *)
(* hist] is the state SceVm::update works on.                              *)
(***************************************************************************)
Ev(m, e) == [m EXCEPT !.log = Append(m.log, e)]

NoSel == -1

Top(m) == m.stack[Len(m.stack)]

\* SceState::set_run_mode
SetRunMode(m, mode) == [m EXCEPT !.run_mode = mode]

\* SceCommandRoleMoveTo::initialize: the role entity's run()
RoleMoveToInitialize(m, c) ==
  [m EXCEPT !.roles[c.args[1]].anim = "run"]

\* The finish test with <= in place of <
MoveCompletedInclusive(remain, step) == Vec3Norm(remain) <= step

\* `let completed = remain.norm() < step;`
MoveCompleted(remain, step) == Vec3Norm(remain) < step

\* The update without the snap to the target: the role always advances
\* by step
RoleMoveToApplyNoSnap(m, c, role, to, position, step, remain, completed) ==
  [m |-> [m EXCEPT !.roles[role].position =
                      Vec3Add(position,
                              Vec3Scale(step, Vec3Normalized(remain))),
                   !.roles[role].anim =
                      IF completed THEN "idle" ELSE m.roles[role].anim],
   c |-> c,
   fin |-> completed]

\* The update from `let new_position = ..` on
RoleMoveToApply(m, c, role, to, position, step, remain, completed) ==
  [m |-> [m EXCEPT !.roles[role].position =
                      IF completed THEN to
                      ELSE Vec3Add(position,
                                   Vec3Scale(step, Vec3Normalized(remain))),
                   !.roles[role].anim =
                      IF completed THEN "idle" ELSE m.roles[role].anim],
   c |-> c,
   fin |-> completed]

\* The update from `let step = SPEED * delta_sec;` on
RoleMoveToFrom(m, c, role, to, position, step) ==
  RoleMoveToApply(m, c, role, to, position, step, Vec3Sub(to, position),
                  MoveCompleted(Vec3Sub(to, position), step))

\* update with a step that ignores delta_sec
RoleMoveToUpdateUnitStep(m, c, dt) ==
  RoleMoveToFrom(m, c, c.args[1],
                 NavCoordToSceneCoord(c.args[2] * FScale, c.args[3] * FScale),
                 m.roles[c.args[1]].position, SPEED * FScale)

\* SceCommandRoleMoveTo::update
RoleMoveToUpdate(m, c, dt) ==
  RoleMoveToFrom(m, c, c.args[1],
                 NavCoordToSceneCoord(c.args[2] * FScale, c.args[3] * FScale),
                 m.roles[c.args[1]].position, SPEED * dt)

\* RoleMoveBack as a durative command: update returns false
RoleMoveBackDurative(m, c, dt) ==
  [m |-> [m EXCEPT !.roles[c.args[1]].local_z =
                      m.roles[c.args[1]].local_z + c.args[2]],
   c |-> c,
   fin |-> FALSE]

\* SceCommandRoleMoveBack::update: translate_local(0, 0, speed); true
RoleMoveBackUpdate(m, c, dt) ==
  [m |-> [m EXCEPT !.roles[c.args[1]].local_z =
                      m.roles[c.args[1]].local_z + c.args[2]],
   c |-> c,
   fin |-> TRUE]

\* Idle(length): accumulates delta_sec until length is reached.
IdleUpdate(m, c, dt) ==
  [m |-> m, c |-> [c EXCEPT !.cur = c.cur + dt], fin |-> c.cur + dt >= c.args[1]]

\* SetRunMode(mode)
ScriptRunModeUpdate(m, c) ==
  [m |-> [SetRunMode(m, c.args[1])
            EXCEPT !.hist.modes = m.hist.modes \cup {c.args[1]}],
   c |-> c,
   fin |-> TRUE]

Called(m, c, r) ==
  [m |-> IF r.ok
         THEN [m EXCEPT !.stack = r.stack, !.hist.frames = m.hist.frames + 1]
         ELSE [m EXCEPT !.status = "panic"],
   c |-> c,
   fin |-> TRUE]

\* Call(proc_id): pushes a new frame.
CallUpdate(m, c) ==
  Called(m, c, ExecCallProc(sce, m.stack, c.args[1], m.hist.frames + 1,
                            m.hist.born))

\* Let(slot, value): writes to the top frame's local table.
LetUpdate(m, c) ==
  [m |-> [m EXCEPT !.stack = ExecSetLocal(m.stack, c.args[1], c.args[2])],
   c |-> c,
   fin |-> TRUE]

\* RoleSetPos(role, x, y): the role at the world translation of (x, y).
RoleSetPosUpdate(m, c) ==
  [m |-> [m EXCEPT !.roles[c.args[1]].position =
                      NavCoordToSceneCoord(c.args[2] * FScale, c.args[3] * FScale)],
   c |-> c,
   fin |-> TRUE]

\* DlgSel(options): finishes when the host returns a selected index; the
\* index goes into the top frame's dlgsel slot
\* (current_proc_context_mut().set_dlgsel, which unwraps the top frame).
DlgSelUpdate(m, c, sel) ==
  IF sel = NoSel \/ sel >= Len(c.args[1])
  THEN [m |-> m, c |-> c, fin |-> FALSE]
  ELSE IF Len(m.stack) = 0
  THEN [m |-> [m EXCEPT !.status = "panic"], c |-> c, fin |-> FALSE]
  ELSE [m |-> [m EXCEPT !.stack[Len(m.stack)] = ProcSetDlgsel(Top(m), sel),
                        !.hist.dlg = [n |-> m.hist.dlg.n + 1, k |-> sel,
                                      fid |-> Top(m).fid, used |-> FALSE]],
        c |-> c,
        fin |-> TRUE]

GotDlgSel(m, c, got, stack) ==
  [m |-> Ev([m EXCEPT !.stack = stack, !.hist.dlg.used = TRUE],
            [e |-> "getdlgsel", id |-> c.id, slot |-> c.args[1],
             got |-> got,
             local_after |-> ExecGetLocal(stack, c.args[1]),
             first_after |-> m.hist.dlg.n > 0 /\ ~m.hist.dlg.used,
             k |-> m.hist.dlg.k,
             same_frame |-> m.hist.dlg.fid = Top(m).fid]),
   c |-> c,
   fin |-> TRUE]

\* GetDlgSel(slot): local[slot] = the top frame's dlgsel.
GetDlgSelUpdate(m, c) ==
  GotDlgSel(m, c, ProcGetDlgsel(Top(m)),
            ExecSetLocal(m.stack, c.args[1], ProcGetDlgsel(Top(m))))

ModelledCommands ==
  {"SceCommandIdle", "SceCommandScriptRunMode", "SceCommandCall",
   "SceCommandLet", "SceCommandRoleSetPos", "SceCommandDlgSel",
   "SceCommandGetDlgSel", "SceCommandRoleMoveTo", "SceCommandRoleMoveBack",
   "SceCommandNop"}

\* SceCommand::initialize (the trait's default is a no-op)
CmdInitialize(m, c) ==
  IF c.name = "SceCommandRoleMoveTo" THEN RoleMoveToInitialize(m, c) ELSE m

\* SceCommand::update of each command; a command the scripts of the model
\* do not use stops the machine ("unmodelled").
CmdUpdate(m, c, dt, sel) ==
  CASE c.name = "SceCommandIdle" -> IdleUpdate(m, c, dt)
    [] c.name = "SceCommandScriptRunMode" -> ScriptRunModeUpdate(m, c)
    [] c.name = "SceCommandCall" -> CallUpdate(m, c)
    [] c.name = "SceCommandLet" -> LetUpdate(m, c)
    [] c.name = "SceCommandRoleSetPos" -> RoleSetPosUpdate(m, c)
    [] c.name = "SceCommandDlgSel" -> DlgSelUpdate(m, c, sel)
    [] c.name = "SceCommandGetDlgSel" -> GetDlgSelUpdate(m, c)
    [] c.name = "SceCommandRoleMoveTo" -> RoleMoveToUpdate(m, c, dt)
    [] c.name = "SceCommandRoleMoveBack" -> RoleMoveBackUpdate(m, c, dt)
    [] c.name = "SceCommandNop" -> [m |-> m, c |-> c, fin |-> TRUE]
    [] OTHER -> [m |-> [m EXCEPT !.status = "unmodelled"], c |-> c, fin |-> TRUE]

\* One call of cmd.update, u being what it returned: the "tick" event and
\* the command's history.
Ticked(m, c, dt, u) ==
  [m |-> Ev([u.m EXCEPT !.hist.cmds[c.id] =
                          [name |-> c.name, dec |-> m.hist.cmds[c.id].dec,
                           fin |-> IF u.fin THEN m.hist.born ELSE 0,
                           ticks |-> c.ticks + 1,
                           dt_all |-> IF c.ticks = 0 \/ c.dt_all = dt THEN dt
                                      ELSE -1]],
            [e |-> "tick", id |-> c.id, name |-> c.name, fin |-> u.fin,
             ticks |-> c.ticks + 1, args |-> c.args, dt |-> dt,
             before |-> m.roles, after |-> u.m.roles]),
   c |-> [u.c EXCEPT !.ticks = c.ticks + 1,
                     !.dt_all = IF c.ticks = 0 \/ c.dt_all = dt THEN dt
                                ELSE -1],
   fin |-> u.fin]

\* `cmd.initialize(scene_manager, &mut self.state);`
Initialized(m, c) == Ev(CmdInitialize(m, c), [e |-> "init", id |-> c.id])

\* A tick that runs initialize before every update
TickInitializes(m, c, dt, sel) ==
  Ticked(m, c, dt, CmdUpdate(Initialized(m, c), c, dt, sel))

Tick(m, c, dt, sel) == Ticked(m, c, dt, CmdUpdate(m, c, dt, sel))

(***************************************************************************)
(* SceVm::update                                                           *)
(***************************************************************************)
PopEvents(popped) ==
  [i \in 1..Len(popped) |->
     [e |-> "pop", fid |-> popped[i].frame.fid,
      parent |-> popped[i].frame.parent,
      ret_pc |-> popped[i].frame.ret_pc,
      caller_locals |-> popped[i].frame.caller_locals,
      locals |-> popped[i].frame.local_vars,
      uncovered |-> popped[i].uncovered]]

\* A push at the front of the set
PushUnfinishedFront(m, c, fin) ==
  IF fin THEN m
  ELSE [m EXCEPT !.active = <<c>> \o m.active,
                 !.hist.last_unfinished = c.id]

\* `if !cmd.update(..) { self.active_commands.push(cmd); }`
PushUnfinished(m, c, fin) ==
  IF fin THEN m
  ELSE [m EXCEPT !.active = Append(m.active, c),
                 !.hist.last_unfinished = c.id]

\* The break taken in either run mode
LoopBreaksAnyMode(m) == Len(m.active) > 0

\* The break taken only once a second command is pending
LoopBreaksLate(m) == m.run_mode = 1 /\ Len(m.active) > 1

\* `if self.state.run_mode() == 1 && !self.active_commands.is_empty() { break; }`
LoopBreaks(m) == m.run_mode = 1 /\ Len(m.active) > 0

\* The command object of a decoded instruction
NewCmd(m, g) ==
  [id |-> m.next_id + 1, name |-> g.res.cmd.name, args |-> g.res.cmd.args,
   cur |-> 0, ticks |-> 0, dt_all |-> 0, mode |-> m.run_mode, from |-> g.from]

\* The number of frames with pc < len(inst) when the top frame was asked
\* to decode (g.stack is the stack after the decode, g.from_pc the top
\* frame's pc before it)
Pending(g) ==
  Cardinality({i \in 1..Len(g.stack) :
                 (IF i = Len(g.stack) THEN g.from_pc
                  ELSE g.stack[i].program_counter)
                   < Len(sce[g.stack[i].proc_id])})

\* The machine once get_next_cmd has returned Some(cmd)
Decoded1(m, g) ==
  Ev([m EXCEPT !.next_id = m.next_id + 1,
               !.hist.cmds =
                 Append(m.hist.cmds,
                   [name |-> g.res.cmd.name, dec |-> m.hist.born, fin |-> 0,
                    ticks |-> 0, dt_all |-> 0])],
     [e |-> "decode", id |-> m.next_id + 1, name |-> g.res.cmd.name,
      from |-> g.from, from_pc |-> g.from_pc, active |-> Len(m.active),
      from_proc |-> g.stack[Len(g.stack)].proc_id,
      depth |-> Len(g.stack), pending |-> Pending(g)])

RECURSIVE DecodeLoop(_, _, _)
\* The end of one iteration of the loop
LoopEnd(m, dt, sel) ==
  IF m.status # "running" THEN m
  ELSE IF LoopBreaks(m) THEN m
  ELSE DecodeLoop(m, dt, sel)

AfterTick(u, dt, sel) == LoopEnd(PushUnfinished(u.m, u.c, u.fin), dt, sel)

\* The Some(cmd) arm
RunDecoded(m, c, dt, sel) ==
  AfterTick(Tick(Initialized(m, c), c, dt, sel), dt, sel)

\* `match self.state.context.get_next_cmd()`, g being what it returned
\* and m the machine with the stack it left
MatchNextCmd(m, g, dt, sel) ==
  CASE g.res.kind = "none" -> Ev(m, [e |-> "none", depth |-> Len(m.stack)])
    [] g.res.kind = "panic" ->
         Ev([m EXCEPT !.status = "panic"], [e |-> "panic", op |-> g.res.op])
    [] g.res.kind = "cmd" ->
         RunDecoded(Decoded1(m, g), NewCmd(m, g), dt, sel)

\* get_next_cmd taking the pending commands with the frames it pops
GotNextCmdPopClears(m, g, dt, sel) ==
  MatchNextCmd([m EXCEPT !.stack = g.stack,
                         !.log = m.log \o PopEvents(g.popped),
                         !.active = IF Len(g.popped) > 0 THEN <<>>
                                    ELSE m.active],
               g, dt, sel)

GotNextCmd(m, g, dt, sel) ==
  MatchNextCmd([m EXCEPT !.stack = g.stack,
                         !.log = m.log \o PopEvents(g.popped)],
               g, dt, sel)

\* The `loop` of the branch taken when active_commands is empty.
DecodeLoop(m, dt, sel) ==
  GotNextCmd(m, ExecGetNextCmd(sce, m.stack), dt, sel)

RECURSIVE DrainUntilFinished(_, _, _, _)
DrainStop(u, rest, dt, sel) ==
  IF u.fin THEN [u.m EXCEPT !.active = u.m.active \o Tail(rest)]
  ELSE DrainUntilFinished([u.m EXCEPT !.active = Append(u.m.active, u.c)],
                          Tail(rest), dt, sel)

\* A drain that stops at the first finished command
DrainUntilFinished(m, rest, dt, sel) ==
  IF Len(rest) = 0 \/ m.status # "running" THEN m
  ELSE DrainStop(Tick(m, Head(rest), dt, sel), rest, dt, sel)

RECURSIVE DrainFilter(_, _, _, _)
\* The predicate's result u on the head of rest: removed if true, kept
\* otherwise
DrainNext(u, rest, dt, sel) ==
  DrainFilter(IF u.fin THEN u.m
              ELSE [u.m EXCEPT !.active = Append(u.m.active, u.c)],
              Tail(rest), dt, sel)

\* drain_filter(|cmd| cmd.update(..)): the predicate runs once on every
\* element, in order; the elements it is true of are removed.
DrainFilter(m, rest, dt, sel) ==
  IF Len(rest) = 0 \/ m.status # "running" THEN m
  ELSE DrainNext(Tick(m, Head(rest), dt, sel), rest, dt, sel)

\* `self.state.global_state_mut().update(delta_sec);`
GlobalTick(m, dt) == Ev([m EXCEPT !.log = <<>>], [e |-> "global", dt |-> dt])

DecodeIfDrained(d, dt, sel) ==
  IF d.status = "running" /\ Len(d.active) = 0 THEN DecodeLoop(d, dt, sel)
  ELSE d

\* An update that goes on to decode once the drain has emptied the set
UpdateDecodesAfterDrain(m, dt, sel) ==
  IF Len(m.active) = 0
  THEN DecodeLoop(GlobalTick(m, dt), dt, sel)
  ELSE DecodeIfDrained(
         DrainFilter([GlobalTick(m, dt) EXCEPT !.active = <<>>], m.active,
                     dt, sel),
         dt, sel)

DrainAdded(d, dt, sel) ==
  IF d.status = "running"
  THEN DrainFilter([d EXCEPT !.active = <<>>], d.active, dt, sel)
  ELSE d

\* An update whose decode branch falls through into the drain
UpdateTicksAdded(m, dt, sel) ==
  IF Len(m.active) = 0
  THEN DrainAdded(DecodeLoop(GlobalTick(m, dt), dt, sel), dt, sel)
  ELSE DrainFilter([GlobalTick(m, dt) EXCEPT !.active = <<>>], m.active,
                   dt, sel)

GlobalAfter(d, dt) == Ev(d, [e |-> "global", dt |-> dt])

\* An update that ticks the GlobalState after the commands
UpdateGlobalLast(m, dt, sel) ==
  IF Len(m.active) = 0
  THEN GlobalAfter(DecodeLoop([m EXCEPT !.log = <<>>], dt, sel), dt)
  ELSE GlobalAfter(DrainFilter([m EXCEPT !.log = <<>>, !.active = <<>>],
                               m.active, dt, sel), dt)

\* SceVm::update(scene_manager, ui, delta_sec)
Update(m, dt, sel) ==
  IF Len(m.active) = 0
  THEN DecodeLoop(GlobalTick(m, dt), dt, sel)
  ELSE DrainFilter([GlobalTick(m, dt) EXCEPT !.active = <<>>], m.active,
                   dt, sel)

(***************************************************************************)
(* The SceFile format, writing side: what the loader hands the VM.         *)
(***************************************************************************)
EncU16(v) == <<v % 256, v \div 256>>

EncI16(v) == EncU16(IF v < 0 THEN v + 65536 ELSE v)

EncI32(v) ==
  LET w == IF v < 0 THEN v + 2147483647 + 1 ELSE v
  IN <<w % 256, (w \div 256) % 256, (w \div 65536) % 256,
       (w \div 16777216) + (IF v < 0 THEN 128 ELSE 0)>>

EncU32(v) == EncI32(v)

\* GBK bytes of a text: a character below 0x80 is one byte, any other its
\* lead and trail byte.
RECURSIVE EncGbk(_)
EncGbk(text) ==
  IF text = <<>> THEN <<>>
  ELSE (IF Head(text) < 128 THEN <<Head(text)>>
        ELSE <<Head(text) \div 256, Head(text) % 256>>) \o EncGbk(Tail(text))

\* u16 length, the text, the terminating NUL (counted in the length)
EncString(text) ==
  LET b == EncGbk(text) IN EncU16(Len(b) + 1) \o b \o <<0>>

\* u16 count, then per item a tag byte and a string
EncList(items) ==
  EncU16(Len(items))
    \o Flatten([i \in 1..Len(items) |-> <<i>> \o EncString(items[i])])

\* binary32 literals: the four bytes and the value in FScale-ths
F32Lits ==
  << [bytes |-> <<0, 0, 128, 62>>, val |-> 1],      \* 0.25
     [bytes |-> <<0, 0, 0, 63>>, val |-> 2],        \* 0.5
     [bytes |-> <<0, 0, 64, 63>>, val |-> 3],       \* 0.75
     [bytes |-> <<0, 0, 128, 63>>, val |-> 4],      \* 1.0
     [bytes |-> <<0, 0, 192, 191>>, val |-> -6],    \* -1.5
     [bytes |-> <<0, 0, 47, 67>>, val |-> 700],     \* 175.0
     [bytes |-> <<0, 0, 175, 67>>, val |-> 1400] >> \* 350.0

F32Quarter == F32Lits[1].bytes
F32Half == F32Lits[2].bytes
F32One == F32Lits[4].bytes

\* One instruction as the dispatcher reads it: the opcode, then the
\* arguments from the last declared parameter to the first.
Instr(op, argbytes) == EncI32(op) \o Flatten(Reverse(argbytes))

\* The same instruction with the arguments in declared order.
InstrDeclared(op, argbytes) == EncI32(op) \o Flatten(argbytes)

IIdle(len) == Instr(1, <<len>>)
ISetRunMode(mode) == Instr(2, <<EncI32(mode)>>)
ILet(var, value) == Instr(13, <<EncI16(var), EncI32(value)>>)
ICall(proc_id) == Instr(16, <<EncU32(proc_id)>>)
IRoleSetPos(role, x, y) == Instr(21, <<EncI32(role), EncI32(x), EncI32(y)>>)
IDlgSel(items) == Instr(65, <<EncList(items)>>)
IGetDlgSel(var) == Instr(66, <<EncI16(var)>>)
IRoleMoveBack(role, speed) == Instr(208, <<EncI32(role), speed>>)
IRoleMoveTo(role, x, y, unknown) ==
  Instr(214, <<EncI32(role), EncI32(x), EncI32(y), EncI32(unknown)>>)

YesNo == << <<89, 101, 115>>, <<78, 111>> >>

(***************************************************************************)
(* The script files of the model                                           *)
(***************************************************************************)
\* [Idle 0.5][RoleSetPos role=1 x=10 y=20]
SceIdlePos == (1 :> (IIdle(F32Half) \o IRoleSetPos(1, 10, 20)))

\* interleaved mode switched on, two durative commands, switched off
SceModes ==
  (1 :> (ISetRunMode(0) \o IIdle(F32Half) \o IRoleMoveTo(1, 0, 350, 0)
           \o ISetRunMode(1) \o IIdle(F32Half) \o IRoleSetPos(1, 10, 20)))

\* DlgSel is the last instruction of the called procedure
SceCall ==
  (1 :> (ILet(0, 5) \o ICall(2) \o IGetDlgSel(3) \o ILet(1, 7)))
    @@ (2 :> (ILet(0, 9) \o ILet(2, 4) \o IDlgSel(YesNo)))

\* DlgSel and GetDlgSel in one procedure
SceDlg == (1 :> (IDlgSel(YesNo) \o IGetDlgSel(5) \o IIdle(F32Half)))

\* interleaved mode decodes the Call while DlgSel is pending
SceDlgCall ==
  (1 :> (ISetRunMode(0) \o IDlgSel(YesNo) \o ICall(2) \o IGetDlgSel(5)))
    @@ (2 :> (ISetRunMode(1) \o IIdle(F32Half)))

\* RoleMoveTo(role=1, nav=(0,350), _=0)
SceMove == (1 :> IRoleMoveTo(1, 0, 350, 0))

\* RoleMoveBack, then a durative command
SceBack == (1 :> (IRoleMoveBack(1, F32One) \o IIdle(F32Half)))

\* Call is the last instruction of the caller
SceTail ==
  (1 :> (ILet(0, 1) \o ICall(2))) @@ (2 :> (ILet(0, 2) \o IIdle(F32Half)))

\* interleaved mode: three durative commands pending at once
SceAmbient ==
  (1 :> (ISetRunMode(0) \o IIdle(F32Half) \o IRoleMoveTo(1, 0, 350, 0)
           \o IIdle(F32Lits[3].bytes)))

Scripts ==
  {SceIdlePos, SceModes, SceCall, SceDlg, SceDlgCall, SceMove, SceBack,
   SceTail, SceAmbient}

(***************************************************************************)
(* Bounds and inputs                                                       *)
(***************************************************************************)
MaxSteps == 5
MaxCalls == 1
NumRoles == 1
MaxVariant == 3

\* delta_sec of an update: 0.25 s or 1.0 s
DeltaSecs == {1, FScale}

\* what the host's dialog_select poll returns during an update
Sels == {NoSel, 0, 1}

Origin == <<0, 0, 0>>

(***************************************************************************)
(* State                                                                   *)
(***************************************************************************)
Machine ==
  [stack |-> proc_stack, active |-> active_commands, run_mode |-> run_mode,
   roles |-> roles, status |-> status, log |-> log, next_id |-> next_id,
   hist |-> hist]

\* hist: frames = frames created so far; born = updates begun so far
\* (the running one included); cmds[id] = [name, dec, fin, ticks, dt_all]
\* of every command decoded so far (the updates it was decoded and
\* finished in, fin = 0 while unfinished); last_unfinished = id of the
\* command pushed last; dlg = the latest DlgSel completion (n-th, index k,
\* on frame fid) and whether a GetDlgSel has run since; modes = the run
\* modes the executed SetRunMode commands have set.
NewHist ==
  [frames |-> 0, born |-> 0, cmds |-> <<>>, last_unfinished |-> 0,
   modes |-> {},
   dlg |-> [n |-> 0, k |-> 0, fid |-> 0, used |-> FALSE]]

\* SceVm::new with the state starting in run mode 0
InitVmModeZero(file) ==
  /\ sce = file
  /\ proc_stack = <<>>
  /\ active_commands = <<>>
  /\ run_mode = 0
  /\ roles = [r \in 1..NumRoles |->
                [position |-> Origin, anim |-> "idle", local_z |-> 0]]
  /\ status = "running"
  /\ log = <<>>
  /\ next_id = 0
  /\ steps = 0
  /\ ncalls = 0
  /\ hist = NewHist

\* SceVm::new: SceState::new sets run_mode 1, the stack and the active set
\* are empty.
InitVm(file) ==
  /\ sce = file
  /\ proc_stack = <<>>
  /\ active_commands = <<>>
  /\ run_mode = 1
  /\ roles = [r \in 1..NumRoles |->
                [position |-> Origin, anim |-> "idle", local_z |-> 0]]
  /\ status = "running"
  /\ log = <<>>
  /\ next_id = 0
  /\ steps = 0
  /\ ncalls = 0
  /\ hist = NewHist

Init ==
  /\ \E file \in Scripts : InitVm(file)
  /\ input = [on |-> FALSE]
  /\ decoded = [kind |-> "off"]

\* SceVm::call_proc, called by the director
CallProc(p) ==
  /\ status = "running"
  /\ ncalls < MaxCalls
  /\ p \in DOMAIN sce
  /\ proc_stack' =
       ExecCallProc(sce, proc_stack, p, hist.frames + 1, hist.born).stack
  /\ hist' = [hist EXCEPT !.frames = hist.frames + 1]
  /\ ncalls' = ncalls + 1
  /\ UNCHANGED <<sce, active_commands, run_mode, roles, status, log, next_id,
                 steps, input, decoded>>

\* The state update has left
Becomes(m) ==
  /\ proc_stack' = m.stack
  /\ active_commands' = m.active
  /\ run_mode' = m.run_mode
  /\ roles' = m.roles
  /\ status' = m.status
  /\ log' = m.log
  /\ next_id' = m.next_id
  /\ hist' = m.hist

\* SceVm::update, called once per frame
Step(dt, sel) ==
  /\ status = "running"
  /\ steps < MaxSteps
  /\ Becomes(Update([Machine EXCEPT !.hist.born = steps + 1], dt, sel))
  /\ steps' = steps + 1
  /\ UNCHANGED <<sce, ncalls, input, decoded>>

Next ==
  \/ \E p \in {1, 2} : CallProc(p)
  \/ \E dt \in DeltaSecs, sel \in Sels : Step(dt, sel)

Spec == Init /\ [][Next]_vars

(***************************************************************************)
(* Decoder harness: one instruction of every opcode, its arguments drawn   *)
(* per type, position k and variant v, laid out either in declared order   *)
(* or in the order the dispatcher reads, followed by one more instruction  *)
(* (69, FadeOut); get_next_cmd is called once on it.                       *)
(***************************************************************************)
SampleI16(k, v) == IF v % 2 = 0 THEN -(300 + 10 * v + k) ELSE 300 + 10 * v + k

SampleI32(k, v) == IF v % 2 = 0 THEN -(1000 * v + k) ELSE 70000 * v + k

SampleU32(k, v) == 70000 * v + k

SampleF32(k, v) == F32Lits[((k + v) % Len(F32Lits)) + 1]

\* v ASCII characters; every third variant ends in a two-byte character
SampleText(k, v) ==
  [j \in 1..v |-> IF v % 3 = 0 /\ j = v THEN 50403 ELSE 64 + k + j]

SampleItems(k, v) == [j \in 1..v |-> <<48 + j, 64 + k>>]

\* [val |-> the value, bytes |-> its encoding]
SampleArg(type, k, v) ==
  CASE type = "i16" -> [val |-> SampleI16(k, v), bytes |-> EncI16(SampleI16(k, v))]
    [] type = "i32" -> [val |-> SampleI32(k, v), bytes |-> EncI32(SampleI32(k, v))]
    [] type = "u32" -> [val |-> SampleU32(k, v), bytes |-> EncU32(SampleU32(k, v))]
    [] type = "f32" -> SampleF32(k, v)
    [] type = "string" -> [val |-> SampleText(k, v),
                           bytes |-> EncString(SampleText(k, v))]
    [] type = "list" -> [val |-> SampleItems(k, v),
                         bytes |-> EncList(SampleItems(k, v))]

Layouts == {"declared", "reversed"}

SampleEncoded(op, v, layout, arm, bytes, vals) ==
  [on |-> TRUE, op |-> op, v |-> v, layout |-> layout,
   macro |-> arm.macro, name |-> arm.name, types |-> arm.types,
   vals |-> vals,
   widths |-> [k \in 1..Len(bytes) |-> Len(bytes[k])],
   inst |-> (IF layout = "declared" THEN InstrDeclared(op, bytes)
             ELSE Instr(op, bytes)) \o Instr(69, <<>>)]

SampleOf(op, v, layout, arm) ==
  SampleEncoded(op, v, layout, arm,
    [k \in 1..Len(arm.types) |-> SampleArg(arm.types[k], k, v).bytes],
    [k \in 1..Len(arm.types) |-> SampleArg(arm.types[k], k, v).val])

SampleInput(op, v, layout) == SampleOf(op, v, layout, MatchArm(op))

RECURSIVE Sum(_)
Sum(s) == IF Len(s) = 0 THEN 0 ELSE Head(s) + Sum(Tail(s))

InitDecode ==
  \E op \in Opcodes, v \in 1..MaxVariant, layout \in Layouts :
    /\ input = SampleInput(op, v, layout)
    /\ decoded = [kind |-> "pending"]
    /\ sce = (1 :> input.inst)
    /\ proc_stack = ExecCallProc(sce, <<>>, 1, 1, 0).stack
    /\ active_commands = <<>>
    /\ run_mode = 1
    /\ roles = [r \in 1..NumRoles |->
                  [position |-> Origin, anim |-> "idle", local_z |-> 0]]
    /\ status = "running"
    /\ log = <<>>
    /\ next_id = 0
    /\ steps = 0
    /\ ncalls = 1
    /\ hist = [NewHist EXCEPT !.frames = 1]

Returned(g) ==
  /\ proc_stack' = g.stack
  /\ decoded' = g.res
  /\ status' = IF g.res.kind = "panic" THEN "panic" ELSE status

\* SceExecutionContext::get_next_cmd, called once
DecodeOne ==
  /\ input.on
  /\ decoded.kind = "pending"
  /\ Returned(ExecGetNextCmd(sce, proc_stack))
  /\ UNCHANGED <<sce, active_commands, run_mode, roles, log, next_id, steps,
                 ncalls, hist, input>>

SpecDecode == InitDecode /\ [][DecodeOne]_vars

Decoded == input.on /\ decoded.kind # "pending"

PcAdvance == proc_stack[1].program_counter

AliasBase == {6, 7, 8, 9, 10, 11, 13, 17, 66, 108}

\* X | 0x10000 for X below 0x10000
AliasOf(op) == op + 65536

\* get_next_cmd on the harness instruction with its opcode replaced
DecodeWithOpcode(op) ==
  ExecGetNextCmd(1 :> (EncI32(op) \o SubSeq(input.inst, 5, Len(input.inst))),
                 ExecCallProc(sce, <<>>, 1, 1, 0).stack).res

\* C6: for each X of 6..11, 13, 17, 66, 108, dispatching X | 0x10000 over
\* the argument bytes of an instruction X yields the same command kind
\* with the same argument values and the same pc advance as dispatching X.
C6_AliasEquivalence ==
  (Decoded /\ input.op \in AliasBase)
    => LET alt == DecodeWithOpcode(AliasOf(input.op))
       IN /\ alt.op = AliasOf(input.op)
          /\ alt.kind = "cmd"
          /\ decoded.kind = "cmd"
          /\ alt.cmd.name = decoded.cmd.name
          /\ alt.cmd.args = decoded.cmd.args
          /\ alt.pc = decoded.pc

\* Let = 13 and 65549
C6_Witness ==
  /\ Decoded
  /\ input.op = 13
  /\ input.layout = "reversed"
  /\ decoded.kind = "cmd"
  /\ decoded.cmd.name = "SceCommandLet"
  /\ decoded.cmd.args = <<SampleI16(1, input.v), SampleI32(2, input.v)>>
  /\ DecodeWithOpcode(65549).cmd = decoded.cmd

(***************************************************************************)
(* C1.  Run-mode invariant.                                                *)
(***************************************************************************)
\* The commands decoded so far whose update has not yet returned true
Unfinished == {i \in 1..Len(hist.cmds) : hist.cmds[i].fin = 0}

\* The set holds at most one command, and that one is the unfinished
\* command decoded last
HoldsLatestUnfinished ==
  /\ Len(active_commands) <= 1
  /\ Len(active_commands) = 1
       => /\ active_commands[1].id \in Unfinished
          /\ \A i \in Unfinished : i <= active_commands[1].id
          /\ active_commands[1].id = hist.last_unfinished

\* C1 as stated: whenever the run mode is 1 at the end of a step, the
\* active set has at most one element, the most recently decoded unfinished
\* command, also after SetRunMode(0) followed by SetRunMode(1).
C1_ModeOneAtMostOne ==
  (steps > 0 /\ status = "running" /\ run_mode = 1) => HoldsLatestUnfinished

\* C1 amended: whenever the run mode is 1 at the end of a step and every
\* command of the active set was decoded while the run mode was 1, the
\* active set has at most one element, the most recently decoded
\* unfinished command.
C1_ModeOneDecodedAtMostOne ==
  (/\ steps > 0
   /\ status = "running"
   /\ run_mode = 1
   /\ \A i \in 1..Len(active_commands) : active_commands[i].mode = 1)
    => HoldsLatestUnfinished

\* After SetRunMode(0) .. SetRunMode(1): the Idle decoded in mode 1 is alone
C1_Witness ==
  /\ sce = SceModes
  /\ steps > 0
  /\ status = "running"
  /\ run_mode = 1
  /\ Len(active_commands) = 1
  /\ active_commands[1].mode = 1
  /\ active_commands[1].name = "SceCommandIdle"
  /\ active_commands[1].id = 5
  /\ hist.cmds[3].name = "SceCommandRoleMoveTo"
  /\ hist.cmds[3].fin > 0

(***************************************************************************)
(* C2.  [Idle 0.5][RoleSetPos role=1 x=10 y=20], two updates of 0.25 s.    *)
(***************************************************************************)
\* The procedure was called once, the Idle is command 1 and all its
\* updates so far had delta_sec = 0.25
IdleQuarterSteps ==
  /\ sce = SceIdlePos
  /\ hist.frames = 1
  /\ Len(hist.cmds) >= 1
  /\ hist.cmds[1].name = "SceCommandIdle"
  /\ hist.cmds[1].dt_all = 1

\* The first update of the scenario has ended
AfterFirstStep == IdleQuarterSteps /\ steps = hist.cmds[1].dec

\* The second update of the scenario has ended
AfterSecondStep == IdleQuarterSteps /\ steps = hist.cmds[1].dec + 1

\* A later update has ended
AfterThirdStep == IdleQuarterSteps /\ steps > hist.cmds[1].dec + 1

IdleIsActive ==
  /\ Len(active_commands) = 1
  /\ active_commands[1].id = 1
  /\ hist.cmds[1].fin = 0

\* C2 as stated: after the first step(0.25) the active set holds the Idle;
\* during the second step(0.25) the Idle finishes and the RoleSetPos is
\* decoded and runs to completion in that same step.
C2_SetPosSameStep ==
  /\ AfterFirstStep => IdleIsActive
  /\ AfterSecondStep
       => /\ hist.cmds[1].fin = steps
          /\ Len(hist.cmds) = 2
          /\ hist.cmds[2].name = "SceCommandRoleSetPos"
          /\ hist.cmds[2].dec = steps
          /\ hist.cmds[2].fin = steps

\* C2 amended: after the first step(0.25) the active set holds the Idle;
\* during the second step(0.25) the Idle finishes and nothing is decoded;
\* the RoleSetPos is decoded and runs to completion in the step after
\* that, leaving role 1 at the world translation of (10, 20).
C2_SetPosNextStep ==
  /\ AfterFirstStep => IdleIsActive
  /\ AfterSecondStep
       => /\ hist.cmds[1].fin = steps
          /\ hist.cmds[1].ticks = 2
          /\ Len(hist.cmds) = 1
          /\ Len(active_commands) = 0
          /\ roles[1].position = Origin
  /\ AfterThirdStep
       => /\ Len(hist.cmds) = 2
          /\ hist.cmds[2].name = "SceCommandRoleSetPos"
          /\ hist.cmds[2].dec = hist.cmds[1].fin + 1
          /\ hist.cmds[2].fin = hist.cmds[1].fin + 1
          /\ roles[1].position = NavCoordToSceneCoord(10 * FScale, 20 * FScale)

\* Idle decoded in update 1, finished in update 2, RoleSetPos run in update 3
C2_Witness ==
  /\ IdleQuarterSteps
  /\ steps = 3
  /\ hist.cmds[1].dec = 1
  /\ hist.cmds[1].fin = 2
  /\ Len(hist.cmds) = 2
  /\ hist.cmds[2].fin = 3
  /\ roles[1].position = <<10 * FScale, 0, 20 * FScale>>

(***************************************************************************)
(* C3.  An update entered with a non-empty active set.                     *)
(***************************************************************************)
\* The ids of the commands act whose "tick" event in lg says unfinished
KeptIds(act, lg) ==
  LET kept == SelectSeq([i \in 1..Len(act) |-> i],
                        LAMBDA i : ~lg[i + 1].fin)
  IN [j \in 1..Len(kept) |-> act[kept[j]].id]

\* C3: a step entered with a non-empty active set ticks every active
\* command exactly once, in order, removes exactly those whose tick
\* returned finished, and decodes nothing: the stack depth and every
\* frame's program counter are unchanged by the step, even if the active
\* set becomes empty during it.
C3_DrainDecodesNothing ==
  [][(Len(active_commands) > 0 /\ steps' = steps + 1 /\ status' = "running")
       => /\ Len(proc_stack') = Len(proc_stack)
          /\ \A i \in 1..Len(proc_stack) :
               /\ proc_stack'[i].program_counter = proc_stack[i].program_counter
               /\ proc_stack'[i].fid = proc_stack[i].fid
          /\ next_id' = next_id
          /\ Len(hist'.cmds) = Len(hist.cmds)
          /\ Len(log') = 1 + Len(active_commands)
          /\ \A i \in 1..Len(active_commands) :
               /\ log'[i + 1].e = "tick"
               /\ log'[i + 1].id = active_commands[i].id
               /\ log'[i + 1].ticks = active_commands[i].ticks + 1
          /\ [j \in 1..Len(active_commands') |-> active_commands'[j].id]
               = KeptIds(active_commands, log')]_vars

\* The Idle finished in a drain that emptied the set while the frame still
\* has the RoleSetPos to decode
C3_Witness ==
  /\ sce = SceIdlePos
  /\ Len(hist.cmds) = 1
  /\ hist.cmds[1].fin = steps
  /\ hist.cmds[1].dec < steps
  /\ Len(active_commands) = 0
  /\ Len(log) = 2
  /\ log[2].e = "tick"
  /\ log[2].fin
  /\ Len(proc_stack) = 1
  /\ proc_stack[1].program_counter < Len(sce[1])

(***************************************************************************)
(* C7.  Completion drain.                                                  *)
(***************************************************************************)
\* What follows the pop of a completed frame in get_next_cmd: the pop of
\* its caller, a command decoded from its caller at the caller's saved
\* pc, or absent with the stack empty
PopFollowedBy(p, n) ==
  \/ /\ n.e = "pop"
     /\ p.parent # 0
     /\ n.fid = p.parent
  \/ /\ n.e = "decode"
     /\ p.parent # 0
     /\ n.from = p.parent
     /\ n.from_pc = p.ret_pc
  \/ /\ n.e = "none"
     /\ p.parent = 0
     /\ n.depth = 0

\* C7: once a called procedure's frame has reached pc >= len(inst), the
\* next get_next_cmd pops it and every completed frame it uncovers, and
\* returns a command decoded from the caller's frame at the caller's
\* saved pc; it returns absent only when the stack is empty after the
\* pops.
C7_CompletionDrain ==
  /\ \A i \in 1..Len(log) :
       log[i].e = "pop" => i < Len(log) /\ PopFollowedBy(log[i], log[i + 1])
  /\ \A i \in 1..Len(log) : log[i].e = "none" => log[i].depth = 0
  /\ \A i \in 1..Len(proc_stack) :
       i > 1 => /\ proc_stack[i].parent = proc_stack[i - 1].fid
                /\ proc_stack[i].ret_pc = proc_stack[i - 1].program_counter

\* The called procedure 2 ran off its end; GetDlgSel, the instruction
\* after the Call, is decoded from the caller
C7_Witness ==
  /\ sce = SceCall
  /\ \E i \in 1..Len(log) :
       /\ log[i].e = "pop"
       /\ log[i].parent # 0
       /\ i < Len(log)
       /\ log[i + 1].e = "decode"
       /\ log[i + 1].name = "SceCommandGetDlgSel"
       /\ log[i + 1].from = log[i].parent
       /\ log[i + 1].from_pc = log[i].ret_pc
       /\ log[i].ret_pc > 0

(***************************************************************************)
(* C8.  Frame isolation.                                                   *)
(***************************************************************************)
\* C8: a frame pushed by call_proc starts with an empty local table, and
\* set_local(s, v) while the callee's frame is on top never changes what
\* the caller's frame returns for get_local(s) once the callee is popped.
C8_FrameIsolation ==
  /\ \A i \in 1..Len(proc_stack) :
       proc_stack[i].writes = 0 => proc_stack[i].local_vars = NoLocals
  /\ \A i \in 1..Len(proc_stack) :
       i > 1 => proc_stack[i - 1].local_vars = proc_stack[i].caller_locals
  /\ \A i \in 1..Len(log) :
       (log[i].e = "pop" /\ log[i].parent # 0)
         => log[i].uncovered = log[i].caller_locals

\* Procedure 2 set slot 0 to 9 and slot 2 to 4; its caller still has slot 0
\* at 5 and no slot 2
C8_Witness ==
  /\ sce = SceCall
  /\ \E i \in 1..Len(log) :
       /\ log[i].e = "pop"
       /\ log[i].parent # 0
       /\ log[i].locals = (0 :> 9) @@ (2 :> 4)
       /\ log[i].caller_locals = (0 :> 5)
       /\ log[i].uncovered = (0 :> 5)

(***************************************************************************)
(* C9.  Dlg round-trip.                                                    *)
(***************************************************************************)
\* The GetDlgSel of event g stored selection k in its slot
StoredSelection(g) ==
  /\ g.got = g.k
  /\ g.local_after = [some |-> TRUE, v |-> g.k]

\* C9 as stated: after a DlgSel completes with selection k, the next
\* GetDlgSel(slot) that is executed sets local[slot] = k, wherever the two
\* opcodes are placed.
C9_NextGetDlgSel ==
  \A i \in 1..Len(log) :
    (log[i].e = "getdlgsel" /\ log[i].first_after) => StoredSelection(log[i])

\* C9 amended: after a DlgSel completes with selection k, the next
\* GetDlgSel(slot) that is executed sets local[slot] = k if the frame on
\* top when it executes is the frame that was on top when the DlgSel
\* completed (and no other DlgSel completed in between).
C9_NextGetDlgSelSameFrame ==
  \A i \in 1..Len(log) :
    (log[i].e = "getdlgsel" /\ log[i].first_after /\ log[i].same_frame)
      => StoredSelection(log[i])

\* DlgSel(["Yes", "No"]) with index 1 selected, then GetDlgSel(slot = 5)
C9_Witness ==
  /\ sce = SceDlg
  /\ \E i \in 1..Len(log) :
       /\ log[i].e = "getdlgsel"
       /\ log[i].first_after
       /\ log[i].same_frame
       /\ log[i].k = 1
       /\ log[i].slot = 5
       /\ log[i].local_after = [some |-> TRUE, v |-> 1]
  /\ ExecGetLocal(proc_stack, 5) = [some |-> TRUE, v |-> 1]

(***************************************************************************)
(* C10.  RoleMoveTo(role = 1, nav = (0, 350)) from the origin, every       *)
(* update with delta_sec = 1.0.                                            *)
(***************************************************************************)
MoveTarget == NavCoordToSceneCoord(0, 350 * FScale)

\* The RoleMoveTo is the only command and all its updates had delta_sec 1.0
MoveWholeSeconds ==
  /\ sce = SceMove
  /\ Len(hist.cmds) = 1
  /\ hist.cmds[1].name = "SceCommandRoleMoveTo"
  /\ hist.cmds[1].dt_all = FScale

\* C10 as stated: the command returns finished on exactly its 2nd tick,
\* the role at the target and its animation idle.
C10_FinishesSecondTick ==
  (MoveWholeSeconds /\ hist.cmds[1].ticks >= 2)
    => /\ hist.cmds[1].fin = hist.cmds[1].dec + 1
       /\ roles[1].position = MoveTarget
       /\ roles[1].anim = "idle"

\* C10 amended: the command returns finished on exactly its 3rd tick (its
\* 2nd tick brings the role onto the target with remaining distance 175,
\* which is not < step, and returns unfinished), the role's final position
\* being the target and its animation idle.
C10_FinishesThirdTick ==
  MoveWholeSeconds
    => /\ hist.cmds[1].ticks <= 3
       /\ hist.cmds[1].fin > 0 <=> hist.cmds[1].ticks = 3
       /\ hist.cmds[1].fin > 0
            => /\ hist.cmds[1].fin = hist.cmds[1].dec + 2
               /\ roles[1].position = MoveTarget
               /\ roles[1].anim = "idle"
       /\ hist.cmds[1].ticks = 1
            => /\ roles[1].position = <<0, 0, 175 * FScale>>
               /\ roles[1].anim = "run"
       /\ hist.cmds[1].ticks = 2
            => /\ roles[1].position = MoveTarget
               /\ roles[1].anim = "run"

\* The third update of 1.0 s finished the move
C10_Witness ==
  /\ MoveWholeSeconds
  /\ hist.cmds[1].ticks = 3
  /\ hist.cmds[1].fin = hist.cmds[1].dec + 2
  /\ roles[1].position = <<0, 0, 350 * FScale>>
  /\ roles[1].anim = "idle"
  /\ Len(active_commands) = 0

(***************************************************************************)
(* Raw-buffer harness: get_next_cmd is called once on a frame standing at  *)
(* offset start of a procedure whose bytes are not a well-formed           *)
(* instruction stream: an i32 that is no code of the table ("unknown"),    *)
(* an instruction whose argument bytes stop early ("cut"), or a string     *)
(* argument with a given length prefix ("str").                            *)
(***************************************************************************)
MaxCode == 30
MaxStr == 3

\* 0xDEADDEAD as i32, 1 | 0x10000 and 16 | 0x10000 have no arm either
UnknownCodes ==
  {c \in 0..MaxCode : c \notin Opcodes} \cup {-559030611, 65537, 65552}

\* What precedes the instruction in the procedure: nothing, or a FadeOut
Prefixes == {<<>>, Instr(69, <<>>)}

\* What follows the opcode
Tails == {<<>>, <<0, 0, 0, 0>>, <<7, 0, 0, 0, 9, 9>>}

RawInput(kind, op, prefix, body, full, have) ==
  [on |-> TRUE, kind |-> kind, op |-> op, start |-> Len(prefix),
   inst |-> prefix \o EncI32(op) \o body, full |-> full, have |-> have]

UnknownInputs ==
  {RawInput("unknown", c, p, t, <<>>, 0) :
     c \in UnknownCodes, p \in Prefixes, t \in Tails}

\* One opcode per primitive type: GetDlgSel(i16), ScriptRunMode(i32),
\* Call(u32), Idle(f32), Dlg(string), DlgSel(list)
CutOps == {66, 2, 16, 1, 62, 65}

\* The argument bytes of op, variant v
ArgBytes(op, v) == SampleArg(MatchArm(op).types[1], 1, v).bytes

\* The instruction with only the first have bytes of its argument
CutsOf(op, p, bytes) ==
  {RawInput("cut", op, p, SubSeq(bytes, 1, n), bytes, n) : n \in 0..Len(bytes)}

CutInputs ==
  UNION {CutsOf(op, p, ArgBytes(op, v)) :
           op \in CutOps, p \in Prefixes, v \in 1..MaxVariant}

\* The L bytes of a string field: L - 1 characters and a last byte
StrBody(L, last) == [i \in 1..L |-> IF i = L THEN last ELSE 64 + i]

\* Dlg(text) with length prefix L and its L bytes, then a FadeOut; full is
\* the text of the L bytes without the last, have is L
StrInputs ==
  {RawInput("str", 62, p, EncU16(L) \o StrBody(L, last) \o Instr(69, <<>>),
            [i \in 1..(IF L = 0 THEN 0 ELSE L - 1) |-> 64 + i], L) :
     p \in Prefixes, L \in 0..MaxStr, last \in {0, 33}}

InitRaw ==
  /\ input \in UnknownInputs \cup CutInputs \cup StrInputs
  /\ decoded = [kind |-> "pending"]
  /\ sce = (1 :> input.inst)
  /\ proc_stack = [ExecCallProc(sce, <<>>, 1, 1, 0).stack
                     EXCEPT ![1].program_counter = input.start]
  /\ active_commands = <<>>
  /\ run_mode = 1
  /\ roles = [r \in 1..NumRoles |->
                [position |-> Origin, anim |-> "idle", local_z |-> 0]]
  /\ status = "running"
  /\ log = <<>>
  /\ next_id = 0
  /\ steps = 0
  /\ ncalls = 1
  /\ hist = [NewHist EXCEPT !.frames = 1]

SpecRaw == InitRaw /\ [][DecodeOne]_vars

(***************************************************************************)
(* C11.  Unknown opcode.                                                   *)
(***************************************************************************)
\* C11: when the i32 at pc is no code of the dispatch table, dispatch ends
\* in the unknown-opcode failure (the default arm's panic) with the frame's
\* pc equal to the pc it had before dispatch began; no command is produced
\* and no argument byte is consumed.
C11_UnknownOpcodeRewinds ==
  (Decoded /\ input.kind = "unknown")
    => /\ decoded.kind = "panic"
       /\ status = "panic"
       /\ decoded.op = input.op
       /\ DispatchArm(decoded.op).macro = "default"
       /\ decoded.cmd = None
       /\ decoded.read = <<>>
       /\ decoded.pc = input.start
       /\ proc_stack[1].program_counter = input.start

\* 0xDEADDEAD after a FadeOut: the pc is back at 4
C11_Witness ==
  /\ Decoded
  /\ input.kind = "unknown"
  /\ input.op = -559030611
  /\ input.start = 4
  /\ Len(input.inst) > 8
  /\ SubSeq(input.inst, 5, 8) = <<173, 222, 173, 222>>
  /\ decoded.kind = "panic"
  /\ proc_stack[1].program_counter = 4

(***************************************************************************)
(* C12.  Reads that run past the end of the procedure.                     *)
(***************************************************************************)
\* C12: every primitive read (i16, i32, u32, f32, string, list) whose
\* bytes would extend past inst.len() ends in the failure outcome instead
\* of returning a value; a string whose length prefix makes pc + L exceed
\* inst.len() by one byte fails too, and the pc is never left beyond
\* inst.len().
C12_TruncatedReadFails ==
  (Decoded /\ input.kind = "cut" /\ input.have < Len(input.full))
    => /\ decoded.kind = "panic"
       /\ proc_stack[1].program_counter <= Len(input.inst)

(***************************************************************************)
(* C18.  The string field.                                                 *)
(***************************************************************************)
\* C18: for every length prefix L from 0 upward whose L bytes lie inside
\* the buffer, reading a string advances the pc by 2 + L and returns the
\* text of the L bytes without the last; L = 0 reads the empty string.
C18_StringConsumesPrefixPlusL ==
  (Decoded /\ input.kind = "str")
    => /\ decoded.kind = "cmd"
       /\ decoded.cmd.args = <<input.full>>
       /\ proc_stack[1].program_counter = input.start + 4 + 2 + input.have

(***************************************************************************)
(* C13.  Order of the active set.  Commands get their ids in the order     *)
(* they are decoded, and a command is pushed in the loop iteration that    *)
(* decoded it, so the order of ids is the order of being added.            *)
(***************************************************************************)
\* The ids of the "tick" events of the latest update, in order
TickedIds ==
  LET at == SelectSeq([i \in 1..Len(log) |-> i],
                      LAMBDA i : log[i].e = "tick")
  IN [j \in 1..Len(at) |-> log[at[j]].id]

\* The ids of the active set, in order
ActiveIds == [j \in 1..Len(active_commands) |-> active_commands[j].id]

Increasing(s) == \A i, j \in 1..Len(s) : i < j => s[i] < s[j]

\* C13: in every step that ticks the active set the commands are ticked
\* in the order in which they were added to it, and removing the finished
\* ones keeps the relative order of those that remain, over any number of
\* steps.
C13_TickedInOrderAdded ==
  /\ Increasing(ActiveIds)
  /\ Increasing(TickedIds)
  /\ \A j \in 1..Len(active_commands) :
       /\ hist.cmds[active_commands[j].id].fin = 0
       /\ hist.cmds[active_commands[j].id].ticks = active_commands[j].ticks

\* Three pending commands were ticked in the order added; the first
\* finished and the other two stay in order
C13_Witness ==
  /\ sce = SceAmbient
  /\ steps = 2
  /\ TickedIds = <<2, 3, 4>>
  /\ log[2].fin
  /\ ActiveIds = <<3, 4>>
  /\ active_commands[1].name = "SceCommandRoleMoveTo"
  /\ active_commands[2].name = "SceCommandIdle"

(***************************************************************************)
(* C14.  One tick per command and step.                                    *)
(***************************************************************************)
\* The number of "tick" events of command id in the latest update
TicksOf(id) ==
  Cardinality({j \in 1..Len(log) : log[j].e = "tick" /\ log[j].id = id})

\* C14: in any single step every command is ticked at most once; a
\* command decoded in a step is ticked exactly once in that step, its
\* first tick, and not again through the active set until a later step.
C14_OneTickPerStep ==
  status = "running"
    => /\ \A id \in 1..Len(hist.cmds) : TicksOf(id) <= 1
       /\ \A i \in 1..Len(log) :
            log[i].e = "decode"
              => /\ TicksOf(log[i].id) = 1
                 /\ hist.cmds[log[i].id].ticks = 1
                 /\ hist.cmds[log[i].id].dec = steps
       /\ \A id \in 1..Len(hist.cmds) :
            hist.cmds[id].ticks <= steps - hist.cmds[id].dec + 1
       /\ \A j \in 1..Len(active_commands) :
            active_commands[j].ticks
              = steps - hist.cmds[active_commands[j].id].dec + 1

\* Three commands decoded and pushed in one update, each ticked once
C14_Witness ==
  /\ sce = SceAmbient
  /\ status = "running"
  /\ steps = 1
  /\ Len(active_commands) = 3
  /\ \A j \in 1..3 : active_commands[j].ticks = 1
  /\ \A id \in 1..4 : TicksOf(id) = 1
  /\ Len(log) > 0
  /\ log[Len(log)].e = "none"

(***************************************************************************)
(* C15.  The GlobalState tick.                                             *)
(***************************************************************************)
\* C15: in every step the GlobalState is ticked exactly once, before any
\* command is decoded, initialized or ticked in that step, in the decode
\* branch and in the active-set branch, also on an exhausted script.
C15_GlobalTickFirst ==
  /\ steps = 0 => Len(log) = 0
  /\ steps > 0
       => /\ Len(log) >= 1
          /\ log[1].e = "global"
          /\ log[1].dt \in DeltaSecs
          /\ \A i \in 2..Len(log) : log[i].e # "global"

\* An update on an exhausted script: the tick, then None
C15_Witness ==
  /\ steps >= 2
  /\ Len(hist.cmds) > 0
  /\ Len(proc_stack) = 0
  /\ Len(active_commands) = 0
  /\ Len(log) = 2
  /\ log[1].e = "global"
  /\ log[2].e = "none"

(***************************************************************************)
(* C16.  initialize.                                                       *)
(***************************************************************************)
\* The number of "init" events of command id in the latest update
InitsOf(id) ==
  Cardinality({j \in 1..Len(log) : log[j].e = "init" /\ log[j].id = id})

\* C16: every dispatched command is initialized exactly once over its
\* lifetime, in the step in which it is decoded and before its first
\* tick; a command that stays in the active set over many steps is never
\* initialized again.
C16_InitializedOnce ==
  /\ \A i \in 1..Len(log) :
       log[i].e = "decode"
         => /\ i + 2 <= Len(log)
            /\ log[i + 1].e = "init"
            /\ log[i + 1].id = log[i].id
            /\ \E j \in (i + 2)..Len(log) :
                 /\ log[j].e = "tick"
                 /\ log[j].id = log[i].id
                 /\ log[j].ticks = 1
            /\ \A j \in 1..(i + 1) :
                 ~(log[j].e = "tick" /\ log[j].id = log[i].id)
  /\ \A i \in 1..Len(log) :
       log[i].e = "init"
         => /\ log[i - 1].e = "decode"
            /\ log[i - 1].id = log[i].id
            /\ hist.cmds[log[i].id].dec = steps
  /\ \A id \in 1..Len(hist.cmds) :
       InitsOf(id) = (IF hist.cmds[id].dec = steps THEN 1 ELSE 0)

\* RoleMoveTo, whose initialize starts the run animation, in its second
\* update: ticked, not initialized
C16_Witness ==
  /\ sce = SceMove
  /\ Len(active_commands) = 1
  /\ active_commands[1].name = "SceCommandRoleMoveTo"
  /\ active_commands[1].ticks = 2
  /\ hist.cmds[1].dec = steps - 1
  /\ roles[1].anim = "run"
  /\ InitsOf(1) = 0
  /\ TicksOf(1) = 1

(***************************************************************************)
(* C17.  The decode loop in run mode 0.                                    *)
(***************************************************************************)
\* The latest update took the decode branch (it called get_next_cmd)
DecodeBranchTaken ==
  /\ steps > 0
  /\ \E i \in 1..Len(log) : log[i].e \in {"decode", "none", "panic"}

\* C17: the decode loop of a step entered with an empty active set never
\* stops in run mode 0 because a command is unfinished: it decodes,
\* initializes and ticks, adding each unfinished command to the active
\* set, until get_next_cmd returns no command (stack empty) or the run
\* mode is 1 with the active set non-empty.
C17_ModeZeroKeepsDecoding ==
  (DecodeBranchTaken /\ status = "running")
    => /\ \/ /\ log[Len(log)].e = "none"
             /\ log[Len(log)].depth = 0
          \/ /\ log[Len(log)].e = "tick"
             /\ run_mode = 1
             /\ Len(active_commands) > 0
       /\ run_mode = 0 => log[Len(log)].e = "none"
       /\ \A i \in 1..Len(log) :
            (log[i].e = "tick" /\ ~log[i].fin)
              => \E j \in 1..Len(active_commands) :
                   active_commands[j].id = log[i].id

\* In mode 0 the loop ran past three unfinished commands to the end of
\* the script
C17_Witness ==
  /\ sce = SceAmbient
  /\ DecodeBranchTaken
  /\ status = "running"
  /\ run_mode = 0
  /\ ActiveIds = <<2, 3, 4>>
  /\ log[Len(log)].e = "none"
  /\ Len(proc_stack) = 0

(***************************************************************************)
(* C19.  Frames with work left when the top frame is asked to decode.      *)
(***************************************************************************)
\* C19 as stated: whenever the top frame is asked to decode an opcode, at
\* most one frame of the stack has pc < len(inst), also after a Call
\* decoded in the middle of a caller's instructions has pushed a callee.
C19_AtMostOnePending ==
  \A i \in 1..Len(log) : log[i].e = "decode" => log[i].pending <= 1

\* C19 amended: whenever the top frame is asked to decode an opcode, the
\* top frame has pc < len(inst), the completed frames having been popped
\* first; the frames below it may have pc < len(inst) as well (after a
\* Call decoded in the middle of a caller's instructions both the caller
\* and the callee do), so between one and all of the frames have.
C19_TopPending ==
  /\ \A i \in 1..Len(log) :
       log[i].e = "decode"
         => /\ log[i].from_pc < Len(sce[log[i].from_proc])
            /\ log[i].pending >= 1
            /\ log[i].pending <= log[i].depth
  /\ \A i \in 1..Len(log) : log[i].e = "none" => log[i].depth = 0

\* The first instruction of procedure 2, called from the middle of
\* procedure 1: both frames have instructions left
C19_Witness ==
  /\ sce = SceCall
  /\ \E i \in 1..Len(log) :
       /\ log[i].e = "decode"
       /\ log[i].from_pc = 0
       /\ log[i].from_proc = 2
       /\ log[i].depth = 2
       /\ log[i].pending = 2

(***************************************************************************)
(* C20.  RoleMoveBack is one-shot.                                         *)
(***************************************************************************)
\* The RoleMoveBack commands decoded so far
MoveBacks ==
  {id \in 1..Len(hist.cmds) : hist.cmds[id].name = "SceCommandRoleMoveBack"}

\* C20: a dispatched RoleMoveBack is ticked exactly once, in the update
\* that decoded it, and that tick returns finished; it never enters the
\* active set and never ends the decode loop in run mode 1 (with nothing
\* else pending the loop goes on to the next get_next_cmd); each of its
\* ticks moves the role's local Z by exactly speed, whatever delta_sec is.
C20_MoveBackOneShot ==
  /\ \A id \in MoveBacks :
       /\ hist.cmds[id].ticks = 1
       /\ hist.cmds[id].fin = hist.cmds[id].dec
       /\ hist.cmds[id].dec >= 1
  /\ \A j \in 1..Len(active_commands) : active_commands[j].id \notin MoveBacks
  /\ \A i \in 1..Len(log) :
       (log[i].e = "tick" /\ log[i].id \in MoveBacks)
         => /\ log[i].fin
            /\ log[i].ticks = 1
            /\ (\E k \in 1..(i - 1) :
                  /\ log[k].e = "decode"
                  /\ log[k].id = log[i].id
                  /\ log[k].active = 0)
                 => /\ i < Len(log)
                    /\ log[i + 1].e \in {"decode", "pop", "none"}
  /\ roles[1].local_z = F32Lits[4].val * Cardinality(MoveBacks)
  /\ \A r \in 2..NumRoles : roles[r].local_z = 0

\* RoleMoveBack(1, 1.0) decoded in run mode 1 in an update of 0.25 s: one
\* tick, local Z moved by 1.0, and the Idle behind it decoded in the same
\* update
C20_Witness ==
  /\ sce = SceBack
  /\ run_mode = 1
  /\ Len(hist.cmds) >= 2
  /\ 1 \in MoveBacks
  /\ hist.cmds[1].ticks = 1
  /\ hist.cmds[1].dt_all = 1
  /\ hist.cmds[2].name = "SceCommandIdle"
  /\ hist.cmds[2].dec = hist.cmds[1].dec
  /\ roles[1].local_z = F32Lits[4].val
  /\ Len(active_commands) = 1
  /\ active_commands[1].id = 2

(***************************************************************************)
(* C21.  Run mode 1 throughout.                                            *)
(***************************************************************************)
\* C21: the VM starts in run mode 1 with an empty active set, and as long
\* as no executed command has set a run mode other than 1, in every
\* reachable state, after any steps and external call_proc calls, the
\* active set has at most one command and no opcode was decoded while a
\* command was unfinished: every decode found the active set empty, and
\* every command decoded earlier had finished by then.
C21_ModeOneSerial ==
  /\ (steps = 0 /\ ncalls = 0) => (run_mode = 1 /\ Len(active_commands) = 0)
  /\ hist.modes \subseteq {1}
       => /\ run_mode = 1
          /\ Len(active_commands) <= 1
          /\ Cardinality(Unfinished) = Len(active_commands)
          /\ \A j \in 1..Len(active_commands) :
               active_commands[j].id \in Unfinished
          /\ \A i \in 1..Len(log) : log[i].e = "decode" => log[i].active = 0
          /\ \A a, b \in 1..Len(hist.cmds) :
               a < b => /\ hist.cmds[a].fin >= 1
                        /\ hist.cmds[a].fin <= hist.cmds[b].dec

\* SetRunMode(1) has run and the Idle behind it is pending alone
C21_Witness ==
  /\ sce = SceDlgCall
  /\ hist.modes = {1}
  /\ Len(hist.cmds) = 2
  /\ hist.cmds[2].name = "SceCommandIdle"
  /\ hist.cmds[2].fin = 0
  /\ run_mode = 1
  /\ Len(active_commands) = 1
  /\ active_commands[1].id = 2

(***************************************************************************)
(* C22.  RoleMoveTo never overshoots.                                      *)
(***************************************************************************)

TickTarget(t) ==
  NavCoordToSceneCoord(t.args[2] * FScale, t.args[3] * FScale)

\* The ticks of RoleMoveTo commands in the running update
MoveTicks ==
  {i \in 1..Len(log) :
     log[i].e = "tick" /\ log[i].name = "SceCommandRoleMoveTo"}

\* The role starts the tick on the line through the target along the z
\* axis: there norm, normalized and the step are exact, in f32 as in the
\* quarter units of the model
AlongZ(t) ==
  /\ t.before[t.args[1]].position[1] = TickTarget(t)[1]
  /\ t.before[t.args[1]].position[2] = TickTarget(t)[2]

\* The distance to the target before and after the tick
RemainBefore(t) ==
  Vec3Norm(Vec3Sub(TickTarget(t), t.before[t.args[1]].position))

RemainAfter(t) ==
  Vec3Norm(Vec3Sub(TickTarget(t), t.after[t.args[1]].position))

Moved(t) ==
  Vec3Norm(Vec3Sub(t.after[t.args[1]].position, t.before[t.args[1]].position))

\* C22, for the moves along an axis: on a tick with remaining distance
\* >= step (step = 175 * delta_sec) the role moves exactly step toward the target, the remaining distance
\* decreases by step and stays >= 0, the command returns unfinished and
\* the animation is unchanged; on a tick with remaining distance < step
\* the position becomes the target, the animation idle, and the command
\* returns finished; a tick with remaining = step lands on the target and
\* is not the finishing tick.
C22_NeverOvershoots ==
  \A i \in {k \in MoveTicks : AlongZ(log[k])} :
    /\ RemainBefore(log[i]) >= SPEED * log[i].dt
         => /\ ~log[i].fin
            /\ Moved(log[i]) = SPEED * log[i].dt
            /\ RemainAfter(log[i]) = RemainBefore(log[i]) - SPEED * log[i].dt
            /\ RemainAfter(log[i]) >= 0
            /\ log[i].after[log[i].args[1]].anim
                 = log[i].before[log[i].args[1]].anim
    /\ RemainBefore(log[i]) < SPEED * log[i].dt
         => /\ log[i].fin
            /\ log[i].after[log[i].args[1]].position = TickTarget(log[i])
            /\ log[i].after[log[i].args[1]].anim = "idle"
    /\ RemainBefore(log[i]) = SPEED * log[i].dt
         => /\ ~log[i].fin
            /\ log[i].after[log[i].args[1]].position = TickTarget(log[i])

\* A finishing tick of 1.0 s that starts 131.25 short of the target (one
\* tick of 0.25 s and one of 1.0 s came before), its step being 175
C22_Witness ==
  \E i \in MoveTicks :
    /\ AlongZ(log[i])
    /\ log[i].dt = FScale
    /\ log[i].ticks = 3
    /\ RemainBefore(log[i]) = 525
    /\ log[i].fin
    /\ log[i].before[log[i].args[1]].anim = "run"
    /\ roles[log[i].args[1]].position = TickTarget(log[i])

(***************************************************************************)
(* C23.  RoleMoveTo under a constant delta_sec.                            *)
(*                                                                         *)
(* One procedure, [RoleMoveTo role=1 nav=(0, z)][Let 0 1], the role at the *)
(* origin, and every update of a behaviour with the same delta_sec         *)
(* (input.pace, in quarters of a second).  With delta_sec = 0 the role     *)
(* starts away from the target: on the target the update would normalise   *)
(* the zero vector.                                                        *)
(***************************************************************************)
MoveDistances == {0, 100, 175, 350, 400, 525}

Paces == {0, 2, FScale}

MoveThen(z) == (1 :> (IRoleMoveTo(1, 0, z, 0) \o ILet(0, 1)))

InitPace ==
  /\ \E z \in MoveDistances, dt \in Paces :
       /\ dt = 0 => z > 0
       /\ InitVm(MoveThen(z))
       /\ input = [on |-> FALSE, pace |-> dt, z |-> z]
  /\ decoded = [kind |-> "off"]

StepPaced == Step(input.pace, NoSel)

NextPace ==
  \/ CallProc(1)
  \/ StepPaced

\* A step of the behaviour in which update was called: the steps of
\* StepPaced, which alone changes the count of updates
UpdateCalled ==
  /\ status = "running"
  /\ steps < MaxSteps
  /\ steps' = steps + 1

\* The host calls update once per rendered frame
SpecPace == InitPace /\ [][NextPace]_vars /\ WF_steps(UpdateCalled)

\* The tick on which a move over z at this pace finishes:
\* floor(d / step) + 1
FinishingTick == (input.z * FScale) \div (SPEED * input.pace) + 1

\* The first RoleMoveTo of the behaviour has been decoded
MoveDecoded ==
  /\ Len(hist.cmds) >= 1
  /\ hist.cmds[1].name = "SceCommandRoleMoveTo"

PacedMove ==
  (input.pace > 0 /\ MoveDecoded)
    => /\ hist.cmds[1].fin = 0
            => /\ hist.cmds[1].ticks < FinishingTick
               /\ Len(hist.cmds) = 1
       /\ hist.cmds[1].fin # 0
            => /\ hist.cmds[1].ticks = FinishingTick
               /\ hist.cmds[1].fin = hist.cmds[1].dec + FinishingTick - 1

StalledMove ==
  (input.pace = 0 /\ MoveDecoded)
    => /\ Len(hist.cmds) = 1
       /\ hist.cmds[1].fin = 0
       /\ hist.cmds[1].ticks = steps - hist.cmds[1].dec + 1
       /\ Len(active_commands) = 1
       /\ active_commands[1].id = 1
       /\ roles[1].position = Origin
       /\ run_mode = 1

\* C23: with the same delta_sec > 0 on every tick a RoleMoveTo at distance
\* d from its target returns finished on tick floor(d / step) + 1 and on
\* no earlier one, and it does get there; with delta_sec = 0 on every tick
\* it never finishes, and in run mode 1 nothing behind it is decoded.
C23_FinishesOnTick ==
  /\ [](PacedMove /\ StalledMove)
  /\ (/\ input.pace > 0
      /\ MoveDecoded
      /\ hist.cmds[1].dec + FinishingTick - 1 <= MaxSteps)
       ~> (MoveDecoded /\ hist.cmds[1].fin # 0)

\* Distance 400 at 1.0 s per update (step 175): finished on tick 3, and
\* the Let behind it decoded in that update
C23_Witness ==
  /\ input.z = 400
  /\ input.pace = FScale
  /\ MoveDecoded
  /\ hist.cmds[1].ticks = 3
  /\ hist.cmds[1].fin = hist.cmds[1].dec + 2
  /\ Len(hist.cmds) = 2
  /\ roles[1].position = <<0, 0, 400 * FScale>>

(***************************************************************************)
(* C24.  The active set is independent of the proc stack.                  *)
(***************************************************************************)
ActiveIdSet == {active_commands[j].id : j \in 1..Len(active_commands)}

\* The command's tick in the running update returned finished
FinishedNow(id) ==
  \E i \in 1..Len(log) : log[i].e = "tick" /\ log[i].id = id /\ log[i].fin

\* C24: a command is in the active set exactly while its last tick has
\* returned unfinished, whatever happens to the proc stack: call_proc
\* leaves the set alone, and an update ticks every command of the set once
\* and removes those, and only those, whose own tick returned finished;
\* frames popped and the stack running empty remove nothing.
C24_ActiveOutlivesStack ==
  [][/\ ActiveIdSet' = Unfinished'
     /\ steps' = steps => active_commands' = active_commands
     /\ steps' = steps + 1
          => \A id \in ActiveIdSet :
               /\ TicksOf(id)' = 1
               /\ hist'.cmds[id].ticks = hist.cmds[id].ticks + 1
               /\ (id \in ActiveIdSet') <=> ~FinishedNow(id)']_vars

\* The script is exhausted, its frame popped with three commands pending;
\* two of them have finished in later updates, the third is still ticked
C24_Witness ==
  /\ sce = SceAmbient
  /\ Len(proc_stack) = 0
  /\ Len(hist.cmds) = 4
  /\ hist.cmds[2].fin = hist.cmds[2].dec + 1
  /\ hist.cmds[4].fin = hist.cmds[4].dec + 2
  /\ ActiveIds = <<3>>
  /\ active_commands[1].ticks = 3
  /\ TicksOf(3) = 1

====
